---- MODULE Spec2Model ----
(***************************************************************************)
(* Live-preview synchronisation engine of omd (src/src/main.rs, server     *)
(* mode): the watcher thread, the commit tasks it spawns, the RwLock'ed    *)
(* html_content, the broadcast channel `notifier`, and the two routes       *)
(* (serve_html on "/", the event stream on "/events") as seen by viewers.   *)
(*                                                                         *)
(* Library semantics used (tokio 1.x):                                      *)
(*  - tokio::sync::RwLock is fair: requests wait in one FIFO queue, a       *)
(*    request is granted at once only when nothing is queued.               *)
(*  - tokio::sync::broadcast: channel(n) allocates n.next_power_of_two()    *)
(*    slots; send fails (and stores nothing) when no receiver exists;       *)
(*    subscribe starts a receiver at the current tail; recv returns         *)
(*    Err(Lagged) when the receiver's next slot was overwritten.            *)
(*  - tokio::spawn hands a task to a multi-threaded runtime: tasks spawned  *)
(*    one after the other are polled in either order.                       *)
(***************************************************************************)
EXTENDS Integers, Sequences, FiniteSets, TLC

\* ---------------------------------------------------------------- bounds
\* number of watch events the watcher handles
MaxEvents == 2
\* number of commit tasks in flight at once
MaxPending == 2
\* the capacity asked of broadcast::channel (100 in the program), scaled
Capacity == 1

\* the viewers (browser tabs)
Viewers == {1, 2}
\* file contents that a read of the watched file can return
Texts == {"a", "b"}
None == "none"
\* no chunk copied yet
NoChunk == [part |-> 0, of |-> None]
\* the Content Store before AppState is built
NoHtml == <<NoChunk, NoChunk>>
\* what a viewer displays before any document was returned to it
NoDoc == [body |-> NoHtml, reload_script |-> FALSE]

VARIABLES
    server_pc,      \* run_server_mode: "init", "spawned", "serving", "exited"
    watcher_pc,     \* watch_markdown_file: "none", "setup", "loop", "panicked"
    nevents,        \* events taken from rx_notify so far
    wlog,           \* what the watcher's latest iteration printed
    nread,          \* number of successful reads after the initial one
    latest,         \* history: the rendering of the most recent read
    tasks,          \* tokio::spawn'ed commit tasks: id -> [html, pc]
    html_content,   \* the String inside AppState.html_content (two chunks)
    rw_writer,      \* the task holding the write guard, 0 if none
    rw_readers,     \* the viewers whose serve_html holds a read guard
    rw_queue,       \* FIFO of waiting lock requests
    rev,            \* history: which read's rendering was assigned last
    installed,      \* history: every rendering that was completely installed
    tail,           \* broadcast channel: number of values stored so far
    vpc,            \* per viewer: "away", "want", "copying", "loaded",
                    \*             "listening", "notified"
    buf,            \* per viewer: first chunk copied by serve_html
    shown,          \* per viewer: the document the viewer displays
    stream,         \* per viewer: "none", "open", "orphan" (client gone)
    next,           \* per viewer: the receiver's next position
    sub_at,         \* history: tail at the time of subscribe
    got,            \* history: reload directives yielded on the stream
    notified_rev    \* history: highest revision announced to a subscriber

vars == <<server_pc, watcher_pc, nevents, wlog, nread, latest, tasks, html_content,
          rw_writer, rw_readers, rw_queue, rev, installed, tail,
          vpc, buf, shown, stream, next, sub_at, got, notified_rev>>

watcher_vars == <<watcher_pc, nevents, wlog, nread, latest>>
lock_vars == <<rw_writer, rw_readers, rw_queue>>
store_vars == <<html_content, rev, installed>>
viewer_vars == <<vpc, buf, shown, stream, next, sub_at, got>>
chan_vars == <<tail, notified_rev>>

\* ------------------------------------------------------- pure functions
\* render_markdown_to_html: the rendering of a text, as the two chunks of
\* the String that holds it
render_markdown_to_html(text) ==
    <<[part |-> 1, of |-> text], [part |-> 2, of |-> text]>>

\* build_full_html: the document around an html fragment
build_full_html(html_output, enable_reload) ==
    [body |-> html_output, reload_script |-> enable_reload]

RECURSIVE NextPowerOfTwo(_)
NextPowerOfTwo(n) == IF n <= 1 THEN 1 ELSE 2 * NextPowerOfTwo((n + 1) \div 2)

\* broadcast::channel(Capacity): the number of slots of the ring buffer
Slots == NextPowerOfTwo(Capacity)

\* a subscribe that starts the receiver at the oldest retained value
subscribe_oldest(tl) == IF tl > Slots THEN tl - Slots ELSE 0

\* Sender::subscribe: position of a new receiver
subscribe(tl) == tl

\* receivers registered with the channel (rx_cnt)
Receivers == {v \in Viewers : stream[v] # None}

\* ---------------------------------------------------------- the RwLock
\* a read lock that does not look for a writer
ReadAvailable_nowriter(w, q) == q = <<>>

\* a read lock that lets readers overtake the queue
ReadAvailable_barging(w, q) == w = 0

\* a read request is granted at once when no writer holds the lock and
\* nothing waits
ReadAvailable(w, q) == w = 0 /\ q = <<>>

\* a write request is granted at once when nobody holds the lock and
\* nothing waits
WriteAvailable(w, r, q) == w = 0 /\ r = {} /\ q = <<>>

\* releasing a guard hands the lock to the waiters at the head of the queue
RECURSIVE Grant(_, _, _)
Grant(w, r, q) ==
    IF q = <<>> \/ w # 0 THEN [w |-> w, r |-> r, q |-> q]
    ELSE IF Head(q).kind = "r" THEN Grant(w, r \cup {Head(q).id}, Tail(q))
    ELSE IF r = {} THEN [w |-> Head(q).id, r |-> r, q |-> Tail(q)]
    ELSE [w |-> w, r |-> r, q |-> q]

\* ------------------------------------------------------------------ Init
Init ==
    /\ server_pc = "init"
    /\ watcher_pc = "none"
    /\ nevents = 0
    /\ wlog = None
    /\ nread = 0
    /\ latest = NoHtml
    /\ tasks = [i \in {} |-> None]
    /\ html_content = NoHtml
    /\ rw_writer = 0
    /\ rw_readers = {}
    /\ rw_queue = <<>>
    /\ rev = 0
    /\ installed = {}
    /\ tail = 0
    /\ notified_rev = 0
    /\ vpc = [v \in Viewers |-> "away"]
    /\ buf = [v \in Viewers |-> NoChunk]
    /\ shown = [v \in Viewers |-> NoDoc]
    /\ stream = [v \in Viewers |-> None]
    /\ next = [v \in Viewers |-> 0]
    /\ sub_at = [v \in Viewers |-> 0]
    /\ got = [v \in Viewers |-> 0]

\* ------------------------------------------------------- run_server_mode
\* a setup that carries on when the initial read failed
after_initial_read_ignored(ok) == "spawned"

\* line 159, read_markdown_input(&file_path)?: an error returns from
\* run_server_mode, and main returns it
after_initial_read(ok) == IF ok THEN "spawned" ELSE "exited"

\* lines 151-175: initial read and render, AppState, spawn of the watcher
RunServerMode_Setup(ok, text) ==
    /\ server_pc = "init"
    /\ server_pc' = after_initial_read(ok)
    /\ IF ok
       THEN /\ html_content' = render_markdown_to_html(text)
            /\ installed' = {render_markdown_to_html(text)}
            /\ latest' = render_markdown_to_html(text)
            /\ watcher_pc' = "setup"
       ELSE /\ UNCHANGED <<html_content, installed, watcher_pc, latest>>
    /\ UNCHANGED <<nevents, wlog, nread, tasks, rev, chan_vars>>
    /\ UNCHANGED lock_vars
    /\ UNCHANGED viewer_vars

\* lines 177-209: routes built, warp::serve(...).run(...)
RunServerMode_Serve ==
    /\ server_pc = "spawned"
    /\ server_pc' = "serving"
    /\ UNCHANGED <<watcher_vars, tasks, store_vars, lock_vars, chan_vars, viewer_vars>>

\* --------------------------------------------------- watch_markdown_file
\* lines 309-330: the watcher is created and the path is watched; both
\* results are unwrapped, inside the blocking task
WatcherSetup(ok) ==
    /\ watcher_pc = "setup"
    /\ watcher_pc' = IF ok THEN "loop" ELSE "panicked"
    /\ UNCHANGED <<server_pc, nevents, wlog, nread, latest, tasks, store_vars,
                   lock_vars, chan_vars, viewer_vars>>

Spawn(ts, id, html) ==
    [i \in DOMAIN ts \cup {id} |->
        IF i = id THEN [html |-> html, pc |-> "spawned"] ELSE ts[i]]

\* a read error taken for an empty file, which is rendered and committed
OnReadError_commit(ts, id) == Spawn(ts, id, render_markdown_to_html(""))

\* the tasks after a read that failed
OnReadError(ts, id) == ts

\* an iteration that re-renders on every event kind
OnOtherEvent_commit(ts, id) == Spawn(ts, id, latest)

\* the tasks after an event whose kind is not Modify
OnOtherEvent(ts, id) == ts

\* lines 332-360: one iteration of the loop over rx_notify
WatchEvent(kind, read_ok, text) ==
    /\ watcher_pc = "loop"
    /\ nevents < MaxEvents
    /\ nevents' = nevents + 1
    /\ watcher_pc' = "loop"
    /\ CASE kind = "Modify" /\ read_ok ->
              /\ Cardinality(DOMAIN tasks) < MaxPending
              /\ nread' = nread + 1
              /\ latest' = render_markdown_to_html(text)
              /\ tasks' = Spawn(tasks, nread + 1, render_markdown_to_html(text))
              /\ wlog' = "File changed"
         [] kind = "Modify" /\ ~read_ok ->
              /\ tasks' = OnReadError(tasks, nread + 1)
              /\ wlog' = "Error reading file"
              /\ UNCHANGED <<nread, latest>>
         [] kind = "Other" ->
              /\ tasks' = OnOtherEvent(tasks, nread + 1)
              /\ wlog' = None
              /\ UNCHANGED <<nread, latest>>
         [] kind = "Error" ->
              /\ wlog' = "watch error"
              /\ UNCHANGED <<nread, latest, tasks>>
    /\ UNCHANGED <<server_pc, store_vars, lock_vars, chan_vars, viewer_vars>>

\* ------------------------------------------- the commit task (342-348)
Live == DOMAIN tasks

SetPc(id, pc) == [tasks EXCEPT ![id].pc = pc]

\* line 343: html_content.write().await, first poll: the guard is taken at
\* once or the request joins the queue
Commit_Acquire(id) ==
    /\ id \in Live
    /\ tasks[id].pc = "spawned"
    /\ tasks' = SetPc(id, "waiting")
    /\ IF WriteAvailable(rw_writer, rw_readers, rw_queue)
       THEN rw_writer' = id /\ UNCHANGED <<rw_readers, rw_queue>>
       ELSE /\ rw_queue' = Append(rw_queue, [kind |-> "w", id |-> id])
            /\ UNCHANGED <<rw_writer, rw_readers>>
    /\ UNCHANGED <<server_pc, watcher_vars, store_vars, chan_vars, viewer_vars>>

\* line 344, *html_content = html_output: the String is overwritten, first
\* chunk
Commit_Assign1(id) ==
    /\ id \in Live
    /\ tasks[id].pc = "waiting"
    /\ rw_writer = id
    /\ html_content' = [html_content EXCEPT ![1] = tasks[id].html[1]]
    /\ tasks' = SetPc(id, "assigning")
    /\ UNCHANGED <<server_pc, watcher_vars, rev, installed, lock_vars, chan_vars,
                   viewer_vars>>

\* line 344, second chunk: the assignment is complete
Commit_Assign2(id) ==
    /\ id \in Live
    /\ tasks[id].pc = "assigning"
    /\ html_content' = [html_content EXCEPT ![2] = tasks[id].html[2]]
    /\ rev' = id
    /\ installed' = installed \cup {html_content'}
    /\ tasks' = SetPc(id, "assigned")
    /\ UNCHANGED <<server_pc, watcher_vars, lock_vars, chan_vars, viewer_vars>>

\* Sender::send: the value is stored only when a receiver exists
send(tl, rx_cnt) == IF rx_cnt = 0 THEN tl ELSE tl + 1

\* a send error that takes the installed rendering back
OnSendError_rollback(html) == NoHtml

\* lines 345-347: `if let Err(e) = notifier.send(())` only prints; the
\* String behind the guard is left as assigned
OnSendError(html) == html

\* lines 345-348: notifier.send(()), an error is only printed; the write
\* guard is dropped at the end of the block and the task is finished
Commit_SendRelease(id) ==
    /\ id \in Live
    /\ tasks[id].pc = "assigned"
    /\ tail' = send(tail, Cardinality(Receivers))
    /\ notified_rev' = IF Receivers # {} /\ rev > notified_rev
                       THEN rev ELSE notified_rev
    /\ LET g == Grant(0, rw_readers, rw_queue)
       IN  /\ rw_writer' = g.w
           /\ rw_readers' = g.r
           /\ rw_queue' = g.q
    /\ tasks' = [i \in Live \ {id} |-> tasks[i]]
    /\ html_content' = IF Receivers = {} THEN OnSendError(html_content)
                                         ELSE html_content
    /\ UNCHANGED <<server_pc, watcher_vars, rev, installed, viewer_vars>>

Commit(id) ==
    \/ Commit_Acquire(id)
    \/ Commit_Assign1(id)
    \/ Commit_Assign2(id)
    \/ Commit_SendRelease(id)

\* ------------------------------------------------- serve_html (379-389)
\* the viewer issues GET / (first load, or location.reload() after a reload
\* directive, which closes its EventSource); line 380: read().await, first
\* poll
ServeHtml_Acquire(v) ==
    /\ server_pc = "serving"
    /\ vpc[v] \in {"away", "notified"}
    /\ vpc' = [vpc EXCEPT ![v] = "want"]
    /\ stream' = [stream EXCEPT ![v] = IF @ = "open" THEN "orphan" ELSE @]
    /\ IF stream[v] = None
       THEN /\ next' = [next EXCEPT ![v] = 0]
            /\ sub_at' = [sub_at EXCEPT ![v] = 0]
            /\ got' = [got EXCEPT ![v] = 0]
       ELSE UNCHANGED <<next, sub_at, got>>
    /\ IF ReadAvailable(rw_writer, rw_queue)
       THEN rw_readers' = rw_readers \cup {v} /\ UNCHANGED <<rw_writer, rw_queue>>
       ELSE /\ rw_queue' = Append(rw_queue, [kind |-> "r", id |-> v])
            /\ UNCHANGED <<rw_writer, rw_readers>>
    /\ UNCHANGED <<server_pc, watcher_vars, tasks, store_vars, chan_vars, buf, shown>>

\* lines 381-387: build_full_html copies the guarded String, first chunk
ServeHtml_Copy1(v) ==
    /\ vpc[v] = "want"
    /\ v \in rw_readers
    /\ buf' = [buf EXCEPT ![v] = html_content[1]]
    /\ vpc' = [vpc EXCEPT ![v] = "copying"]
    /\ UNCHANGED <<server_pc, watcher_vars, tasks, store_vars, lock_vars, chan_vars,
                   shown, stream, next, sub_at, got>>

\* lines 381-389: second chunk, the reply is returned and the read guard is
\* dropped; the viewer displays the document
ServeHtml_Copy2(v) ==
    /\ vpc[v] = "copying"
    /\ shown' = [shown EXCEPT
                   ![v] = build_full_html(<<buf[v], html_content[2]>>, TRUE)]
    /\ buf' = [buf EXCEPT ![v] = NoChunk]
    /\ vpc' = [vpc EXCEPT ![v] = "loaded"]
    /\ LET g == Grant(rw_writer, rw_readers \ {v}, rw_queue)
       IN  /\ rw_writer' = g.w
           /\ rw_readers' = g.r
           /\ rw_queue' = g.q
    /\ UNCHANGED <<server_pc, watcher_vars, tasks, store_vars, chan_vars,
                   stream, next, sub_at, got>>

\* --------------------------------------- the "events" route (183-190)
\* the reload script of the displayed document opens the EventSource (an
\* EventSource whose stream was ended by the server connects again);
\* line 187: notifier.subscribe()
Subscribe(v) ==
    /\ server_pc = "serving"
    /\ vpc[v] \in {"loaded", "listening"}
    /\ shown[v].reload_script
    /\ stream[v] = None
    /\ stream' = [stream EXCEPT ![v] = "open"]
    /\ next' = [next EXCEPT ![v] = subscribe(tail)]
    /\ sub_at' = [sub_at EXCEPT ![v] = tail]
    /\ got' = [got EXCEPT ![v] = 0]
    /\ vpc' = [vpc EXCEPT ![v] = "listening"]
    /\ UNCHANGED <<server_pc, watcher_vars, tasks, store_vars, lock_vars, chan_vars,
                   buf, shown>>

\* lines 186-189: the reply of the "events" route is warp::sse::reply on the
\* bare stream; the keep_alive wrapper is used only by sse_handler (lines
\* 363-377), which no route calls
sse_route_keep_alive == FALSE

\* what an open stream with nothing to take can put on the wire
IdleOutput == IF sse_route_keep_alive THEN {"ping"} ELSE {}

\* a lag test that is off by one
Lagged_early(tl, nx) == tl - nx >= Slots

\* Receiver::recv on a receiver that has a value to take: Lagged when the
\* slot at `next` was overwritten
Lagged(tl, nx) == tl - nx > Slots

\* a stream that goes on yielding after its receiver was dropped
recv_ready_dropped(st, tl, nx) == st # "orphan" /\ nx < tl

\* rx.recv() completes on a stream that is still held, when a value is
\* stored at or after the receiver's position
recv_ready(st, tl, nx) == st = "open" /\ nx < tl

\* event_stream, lines 143-145: one turn of `while let Ok(_) = rx.recv()`
\* with a value available: a "reload" event is yielded, or the loop ends
\* on Err(Lagged) and the receiver is dropped with the stream
StreamRecv(v) ==
    /\ recv_ready(stream[v], tail, next[v])
    /\ IF Lagged(tail, next[v])
       THEN /\ stream' = [stream EXCEPT ![v] = None]
            /\ UNCHANGED <<next, got, vpc>>
       ELSE /\ next' = [next EXCEPT ![v] = @ + 1]
            /\ got' = [got EXCEPT ![v] = @ + 1]
            /\ vpc' = [vpc EXCEPT ![v] = "notified"]
            /\ UNCHANGED stream
    /\ UNCHANGED <<server_pc, watcher_vars, tasks, store_vars, lock_vars, chan_vars,
                   buf, shown, sub_at>>

\* the viewer goes away (tab closed); the server still holds the stream
Disconnect(v) ==
    /\ vpc[v] \in {"loaded", "listening", "notified"}
    /\ vpc' = [vpc EXCEPT ![v] = "away"]
    /\ shown' = [shown EXCEPT ![v] = NoDoc]
    /\ stream' = [stream EXCEPT ![v] = IF @ = "open" THEN "orphan" ELSE @]
    /\ IF stream[v] = None
       THEN /\ next' = [next EXCEPT ![v] = 0]
            /\ sub_at' = [sub_at EXCEPT ![v] = 0]
            /\ got' = [got EXCEPT ![v] = 0]
       ELSE UNCHANGED <<next, sub_at, got>>
    /\ UNCHANGED <<server_pc, watcher_vars, tasks, store_vars, lock_vars, chan_vars,
                   buf>>

\* a reply that goes on holding the stream of a closed connection
drop_stream_kept(st) == st

\* the reply owns the stream and the stream owns rx (lines 140, 186-189):
\* dropping the reply drops the Receiver, which unregisters it
drop_stream(st) == None

\* the server notices the closed connection and drops the stream, and the
\* receiver with it
StreamDrop(v) ==
    /\ stream[v] = "orphan"
    /\ stream' = [stream EXCEPT ![v] = drop_stream(@)]
    /\ next' = [next EXCEPT ![v] = 0]
    /\ sub_at' = [sub_at EXCEPT ![v] = 0]
    /\ got' = [got EXCEPT ![v] = 0]
    /\ UNCHANGED <<server_pc, watcher_vars, tasks, store_vars, lock_vars, chan_vars,
                   vpc, buf, shown>>

\* ------------------------------------------------------------------ Next
Next ==
    \/ \E ok \in BOOLEAN, text \in Texts : RunServerMode_Setup(ok, text)
    \/ RunServerMode_Serve
    \/ \E ok \in BOOLEAN : WatcherSetup(ok)
    \/ \E kind \in {"Modify", "Other", "Error"}, read_ok \in BOOLEAN,
          text \in Texts : WatchEvent(kind, read_ok, text)
    \/ \E id \in 1..MaxEvents : Commit_Acquire(id)
    \/ \E id \in 1..MaxEvents : Commit_Assign1(id)
    \/ \E id \in 1..MaxEvents : Commit_Assign2(id)
    \/ \E id \in 1..MaxEvents : Commit_SendRelease(id)
    \/ \E v \in Viewers : ServeHtml_Acquire(v)
    \/ \E v \in Viewers : ServeHtml_Copy1(v)
    \/ \E v \in Viewers : ServeHtml_Copy2(v)
    \/ \E v \in Viewers : Subscribe(v)
    \/ \E v \in Viewers : StreamRecv(v)
    \/ \E v \in Viewers : Disconnect(v)
    \/ \E v \in Viewers : StreamDrop(v)

Spec == Init /\ [][Next]_vars

TypeOK ==
    /\ server_pc \in {"init", "spawned", "serving", "exited"}
    /\ watcher_pc \in {"none", "setup", "loop", "panicked"}
    /\ nevents \in 0..MaxEvents
    /\ nread \in 0..MaxEvents
    /\ Live \subseteq 1..MaxEvents
    /\ rw_writer \in 0..MaxEvents
    /\ rw_readers \subseteq Viewers
    /\ tail \in 0..MaxEvents
    /\ notified_rev \in 0..MaxEvents
    /\ \A v \in Viewers : next[v] \in 0..MaxEvents /\ got[v] \in 0..MaxEvents

\* -------------------------------------------- the lock under fair polling
\* Fetches and commits alone (viewers that only issue GET /). The runtime
\* polls every task that can advance: each commit task and each serve_html
\* call takes its next step when that step stays possible.
NextLock ==
    \/ \E ok \in BOOLEAN, text \in Texts : RunServerMode_Setup(ok, text)
    \/ RunServerMode_Serve
    \/ \E ok \in BOOLEAN : WatcherSetup(ok)
    \/ \E kind \in {"Modify", "Other", "Error"}, read_ok \in BOOLEAN,
          text \in Texts : WatchEvent(kind, read_ok, text)
    \/ \E id \in 1..MaxEvents : Commit_Acquire(id)
    \/ \E id \in 1..MaxEvents : Commit_Assign1(id)
    \/ \E id \in 1..MaxEvents : Commit_Assign2(id)
    \/ \E id \in 1..MaxEvents : Commit_SendRelease(id)
    \/ \E v \in Viewers : ServeHtml_Acquire(v)
    \/ \E v \in Viewers : ServeHtml_Copy1(v)
    \/ \E v \in Viewers : ServeHtml_Copy2(v)
    \/ \E v \in Viewers : Disconnect(v)

LockSpec ==
    /\ Init
    /\ [][NextLock]_vars
    /\ \A id \in 1..MaxEvents : WF_vars(Commit(id))
    /\ \A v \in Viewers : WF_vars(ServeHtml_Copy1(v) \/ ServeHtml_Copy2(v))

\* a content of the file, for the runs where its value plays no part
AnyText == CHOOSE t \in Texts : TRUE

\* the runs in which the server starts, the watcher is set up and every
\* event is a Modify whose read succeeds, all reads giving one content:
\* the runs that register and notify subscribers
NextStream ==
    \/ RunServerMode_Setup(TRUE, AnyText)
    \/ RunServerMode_Serve
    \/ WatcherSetup(TRUE)
    \/ WatchEvent("Modify", TRUE, AnyText)
    \/ \E id \in 1..MaxEvents : Commit_Acquire(id)
    \/ \E id \in 1..MaxEvents : Commit_Assign1(id)
    \/ \E id \in 1..MaxEvents : Commit_Assign2(id)
    \/ \E id \in 1..MaxEvents : Commit_SendRelease(id)
    \/ \E v \in Viewers : ServeHtml_Acquire(v)
    \/ \E v \in Viewers : ServeHtml_Copy1(v)
    \/ \E v \in Viewers : ServeHtml_Copy2(v)
    \/ \E v \in Viewers : Subscribe(v)
    \/ \E v \in Viewers : StreamRecv(v)
    \/ \E v \in Viewers : Disconnect(v)
    \/ \E v \in Viewers : StreamDrop(v)

\* those runs, where the connection task of a closed connection is polled
\* to its end (the runtime keeps polling a task that was woken)
StreamSpec ==
    /\ Init
    /\ [][NextStream]_vars
    /\ \A v \in Viewers : WF_vars(StreamDrop(v))

\* ---------------------------------------------------------------- claims
\* a viewer whose page is up and whose EventSource it has not closed
Connected(v) == vpc[v] \in {"listening", "notified"}

\* the stream of v has nothing more to yield: it ended, or it is caught up
Drained(v) == stream[v] = None \/ next[v] = tail

\* C1: every commit installs a revision strictly greater than the previous
\* one (revisions numbered by the read that produced them), so the revision
\* in the Content Store never decreases.
C1_RevisionNeverDecreases == [][rev' >= rev]_vars

\* C2: once every commit has completed, the Content Store holds the
\* rendering of the most recent successful read, never an older one.
C2_LatestReadInstalled == (Live = {}) => html_content = latest

\* C3: the body of every document returned by a snapshot fetch is one
\* complete rendering that the initial render or a commit installed, never
\* a mixture of two.
C3_NoTornSnapshot ==
    \A v \in Viewers : shown[v] # NoDoc => shown[v].body \in installed

\* C3 witness: a fetch returned a committed rendering, two different
\* renderings have been installed and a commit is in flight.
C3_Witness ==
    \E v \in Viewers :
        /\ shown[v] # NoDoc
        /\ rev > 0
        /\ shown[v].body = html_content
        /\ Cardinality(installed) = 2
        /\ Live # {}

\* C4: a subscriber registered before a series of commits and still
\* connected after all of them, with nothing left to receive, has received
\* the reload directive of the last one.
C4_LastNotificationReaches ==
    \A v \in Viewers :
        (Connected(v) /\ sub_at[v] < tail /\ Live = {} /\ Drained(v))
            => sub_at[v] + got[v] = tail

C6_ReadFailureChangesNothing ==
    [][(nevents' = nevents + 1 /\ wlog' = "Error reading file")
        => /\ UNCHANGED <<html_content, rev, installed, tail, tasks, got, next>>
           /\ watcher_pc' = "loop"]_vars

\* C6 witness: a read failed after a successful commit, with a subscriber
\* registered and a viewer displaying the last good document.
C6_Witness ==
    /\ wlog = "Error reading file"
    /\ rev > 0
    /\ Live = {}
    /\ \E v \in Viewers :
          stream[v] = "open" /\ next[v] = tail /\ shown[v].body = html_content

\* C7: a viewer whose subscription is registered and caught up, with no
\* commit in flight, displays the current content of the Content Store.
C7_NoStaleViewer ==
    \A v \in Viewers :
        (vpc[v] = "listening" /\ stream[v] = "open" /\ next[v] = tail
            /\ Live = {})
            => shown[v].body = html_content

\* C8: a subscriber receives at most as many reload directives as
\* notifications were sent after its subscribe.
C8_NoReplay == \A v \in Viewers : got[v] <= tail - sub_at[v]

\* C8 witness: a subscriber registered after a notification was sent has
\* received a later one.
C8_Witness == \E v \in Viewers : sub_at[v] > 0 /\ got[v] > 0

\* C9: once the watcher has failed to establish its watch, the server
\* accepts no further snapshot fetch.
C9_AbortOnWatchFailure ==
    [][watcher_pc = "panicked"
        => \A v \in Viewers : (vpc'[v] = "want" => vpc[v] = "want")]_vars

\* C10: under fair polling every snapshot fetch obtains read access and
\* returns, every commit obtains write access and completes, and the
\* watcher's iteration (file read and render) neither holds nor touches
\* the lock.
C10_NoLockWaitForever ==
    /\ \A v \in Viewers : (vpc[v] = "want") ~> (vpc[v] = "loaded")
    /\ \A id \in 1..MaxEvents : (id \in Live) ~> (id \notin Live)
    /\ [][nevents' # nevents => UNCHANGED lock_vars]_vars

\* C10 witness: a commit waits behind a reader and a fetch waits behind
\* that commit.
C10_Witness ==
    /\ rw_readers # {}
    /\ Len(rw_queue) >= 2
    /\ rw_queue[1].kind = "w"
    /\ rw_queue[2].kind = "r"

\* C11: a commit whose send runs while a subscriber's stream is being
\* dropped still completes with its content installed and the watcher
\* untouched, and a subscriber whose receiver is gone gets no further
\* reload directive.
C11_DropDuringSend ==
    /\ [][(\E id \in Live : id \notin DOMAIN tasks')
            => (html_content' = html_content /\ rev' = rev
                /\ watcher_pc' = watcher_pc)]_vars
    /\ [][\A v \in Viewers :
            stream[v] = None => (got'[v] = got[v] \/ got'[v] = 0)]_vars

\* C11 witness: a commit has installed its content and is about to send
\* while the stream of a closed connection is about to be dropped.
C11_Witness ==
    \E id \in Live, v \in Viewers :
        tasks[id].pc = "assigned" /\ stream[v] = "orphan"

\* C12: a snapshot fetch is accepted only while the server is serving, which
\* it does only with the initial render installed; every document returned
\* carries a complete rendering; after a failed initial read no viewer is
\* ever served.
C12_ServeOnlyAfterInitialRender ==
    /\ server_pc = "serving" => html_content # NoHtml /\ installed # {}
    /\ \A v \in Viewers :
          /\ vpc[v] # "away" => server_pc = "serving"
          /\ shown[v] # NoDoc =>
                \E t \in Texts : shown[v].body = render_markdown_to_html(t)
    /\ server_pc = "exited" => html_content = NoHtml

\* C12 witness: the first fetch, before any commit, returned the initial
\* rendering.
C12_Witness ==
    \E v \in Viewers :
        /\ vpc[v] = "loaded"
        /\ nread = 0
        /\ shown[v].body = html_content
        /\ html_content \in installed

\* C13: an iteration of the watcher on an event that is not Modify, or on
\* a watch error, reads nothing, leaves the Content Store, the channel and
\* the commit tasks unchanged, and the loop goes on.
C13_OtherEventsChangeNothing ==
    [][(nevents' = nevents + 1 /\ wlog' \in {None, "watch error"})
        => /\ UNCHANGED <<nread, latest, tasks, html_content, rev, installed,
                          tail, got, next>>
           /\ watcher_pc' = "loop"]_vars

\* C13 witness: the watcher has handled all its events without a successful
\* read, the last of a kind other than Modify, while a subscriber is
\* registered and displays the stored document.
C13_Witness ==
    /\ nevents = MaxEvents
    /\ nread = 0
    /\ wlog = None
    /\ server_pc = "serving"
    /\ \E v \in Viewers : stream[v] = "open" /\ shown[v].body = html_content

\* notifications stored for v that its receiver can still take
Retained(v) == IF tail - next[v] > Slots THEN Slots ELSE tail - next[v]

\* C14: the send of a commit is possible whatever the subscribers' backlogs,
\* no subscriber ever has more notifications retained than the capacity
\* asked of the channel, and a subscriber that is overrun stays
\* registered: an open stream is unregistered only once its client closed.
C14_SendNeverWaitsNorUnregisters ==
    /\ [](\A id \in Live :
            tasks[id].pc = "assigned" => ENABLED Commit_SendRelease(id))
    /\ [](\A v \in Viewers : stream[v] = "open" => Retained(v) <= Capacity)
    /\ [][\A v \in Viewers : stream[v] = "open" => stream'[v] # None]_vars

\* C15: when the events connection of a viewer closes, its subscriber is
\* eventually unregistered: a receiver held for a closed connection does
\* not stay, whatever connects and disconnects follow.
C15_ClosedConnectionUnregistered ==
    \A v \in Viewers : (stream[v] = "orphan") ~> (stream[v] # "orphan")

\* C15 witness: both viewers closed their events connection and the server
\* still holds both receivers, one of them with a notification unread.
C15_Witness ==
    /\ \A v \in Viewers : stream[v] = "orphan"
    /\ \E v \in Viewers : next[v] < tail

\* C16: an open events stream with no notification pending emits keep-alive
\* pings, and the only data events are reload directives, one for each
\* notification the receiver takes.
C16_KeepAliveWhileIdle ==
    /\ [](\A v \in Viewers :
            (stream[v] = "open" /\ next[v] = tail) => IdleOutput # {})
    /\ [][\A v \in Viewers :
            got'[v] = got[v] + 1 => next'[v] = next[v] + 1]_vars

\* the step that ends commit id (its send) finds the rendering of id
\* installed in full, and the task holding the write guard, no reader in
SendsInstalledUnderGuard(id) ==
    (id \in Live /\ id \notin DOMAIN tasks')
        => /\ html_content = tasks[id].html
           /\ rev = id
           /\ rw_writer = id
           /\ rw_readers = {}

\* C17: a commit installs its HTML before it sends, and sends under the
\* write guard, so that whenever the store can be read after the directive
\* of a commit went out to a subscriber, it holds content at least as
\* recent as that commit (revisions numbered by the read that produced
\* them).
C17_FetchAfterDirectiveIsCurrent ==
    /\ [][\A id \in 1..MaxEvents : SendsInstalledUnderGuard(id)]_vars
    /\ [](rw_writer = 0 => rev >= notified_rev)

\* C18: a commit whose send finds no subscriber still leaves its HTML
\* installed: the send stores nothing, the store keeps the content of the
\* commit, the guard is released, the watcher is not stopped, and a fetch
\* that completes returns what the store holds.
C18_CommitWithoutSubscriber ==
    /\ [][\A id \in 1..MaxEvents :
            (id \in Live /\ id \notin DOMAIN tasks' /\ Receivers = {})
                => /\ html_content' = tasks[id].html
                   /\ html_content' \in installed'
                   /\ tail' = tail
                   /\ rw_writer' # id
                   /\ watcher_pc' = "loop"]_vars
    /\ [][\A v \in Viewers :
            (vpc[v] # "loaded" /\ vpc'[v] = "loaded")
                => shown'[v].body = html_content]_vars

\* C18 witness: the one commit was made with nobody subscribed, the watcher
\* has handled a further event since, and a viewer that fetched afterwards
\* displays the new content.
C18_Witness ==
    /\ nread = 1 /\ rev = 1 /\ Live = {} /\ tail = 0
    /\ nevents = 2 /\ watcher_pc = "loop"
    /\ Cardinality(installed) = 2
    /\ \E v \in Viewers : vpc[v] = "loaded" /\ shown[v].body = latest

====
